---- MODULE Spec2Model ----
(***************************************************************************)
(* JANA CIF Helper (janacifhelper.py): the helper functions ordinal,       *)
(* iucr_string and nibble_numbers, the scan of the *.m41 log, the scan of  *)
(* the *.ref log and the assembly of the descriptive CIF items.            *)
(*                                                                         *)
(* Numbers.  A Python float is an IEEE 754 double.  The state holds a float   *)
(* as the shortest decimal that reads back as it, [neg, m, e] meaning       *)
(* (-1)^neg * m * 10^e; float(), round() and format() produce such          *)
(* decimals.  The arithmetic of iucr_string is computed on the doubles      *)
(* themselves (Double, FMul, FDiv, FTrunc, FLess, RoundHalfEven).           *)
(***************************************************************************)
EXTENDS Integers, Sequences, FiniteSets, TLC

VARIABLES
    \* iucr_string under test
    values, fout, values2, fout2, fpc,
    \* nibble_numbers under test
    input_line, count, length, numbers, npc,
    \* what the scan of *.m41 leaves behind (lines 141-233)
    skipped, phase_select, select, shift, background, asymm, profile,
    shift_su, background_su, asymm_su, profile_su,
    \* the descriptive items (lines 282-323)
    pd_proc_ls_special_details, pd_proc_ls_profile_function,
    pd_proc_ls_background_function, shift_lines, apc,
    \* the scans of *.m41 (lines 144-233) and of *.ref (lines 239-248): the lines
    \* of the open log, the number of them consumed, the variable line, the place
    \* in the code, the pass, and the sublists of background before they are flattened
    read_file, cursor, line, pc, su_pass, phase_count, rows,
    line_old, rb_obs,
    \* history: the lines handed to nibble_numbers, and the lines rb_obs was set from
    nibbled, assigned

fmtVars == <<values, fout, values2, fout2, fpc>>
nibVars == <<input_line, count, length, numbers, npc>>
dataVars == <<skipped, phase_select, select, shift, background, asymm, profile,
              shift_su, background_su, asymm_su, profile_su>>
itemVars == <<pd_proc_ls_special_details, pd_proc_ls_profile_function,
              pd_proc_ls_background_function, shift_lines, apc>>
m41Vars == <<read_file, cursor, line, pc, su_pass, phase_count, rows, nibbled,
            line_old, rb_obs, assigned>>
refOnly == <<line_old, rb_obs, assigned>>
vars == <<fmtVars, nibVars, dataVars, itemVars, m41Vars>>

\* Python's None
None == [none |-> TRUE]
ValueError == "ValueError"
IndexError == "IndexError"
NameError == "NameError"
KeyError == "KeyError"
Idle == "idle"

\* the outcome of a call: the value returned, or the exception raised
Return(v) == [exc |-> "", val |-> v]
Raise(e) == [exc |-> e, val |-> <<>>]

-----------------------------------------------------------------------------
(* Decimal arithmetic *)

Pow10(n) == 10 ^ n

Digit(d) == <<"0", "1", "2", "3", "4", "5", "6", "7", "8", "9">>[d + 1]

RECURSIVE NumDigits(_)
NumDigits(m) == IF m < 10 THEN 1 ELSE 1 + NumDigits(m \div 10)

RECURSIVE IntStr(_)
IntStr(m) == IF m < 10 THEN Digit(m) ELSE IntStr(m \div 10) \o Digit(m % 10)

\* the n low decimal digits of m, zero-padded on the left
RECURSIVE FracStr(_, _)
FracStr(m, n) == IF n = 0 THEN "" ELSE FracStr(m \div 10, n - 1) \o Digit(m % 10)

RECURSIVE Zeros(_)
Zeros(n) == IF n <= 0 THEN "" ELSE "0" \o Zeros(n - 1)

RECURSIVE Spaces(_)
Spaces(n) == IF n <= 0 THEN "" ELSE " " \o Spaces(n - 1)

Dec(neg, m, e) == [neg |-> neg, m |-> m, e |-> e]

IsZero(x) == x.m = 0

\* floor(log10(|x|)) for x # 0
FloorLog10(x) == NumDigits(x.m) - 1 + x.e

\* m without its trailing zeros
RECURSIVE StripZeros(_)
StripZeros(m) == IF m # 0 /\ m % 10 = 0 THEN StripZeros(m \div 10) ELSE m

RECURSIVE TrailingZeros(_)
TrailingZeros(m) == IF m # 0 /\ m % 10 = 0 THEN 1 + TrailingZeros(m \div 10) ELSE 0

\* str(x) of a float: the shortest digits, fixed notation for 1e-4 <= |x| < 1e16
FloatStr(x) ==
    LET sign == IF x.neg THEN "-" ELSE ""
        m == StripZeros(x.m)
        e == x.e + TrailingZeros(x.m)
        nd == NumDigits(m)
        p == nd - 1 + e
    IN IF x.m = 0 THEN sign \o "0.0"
       ELSE IF p < -4
            THEN sign \o IntStr(m \div Pow10(nd - 1))
                 \o (IF nd > 1 THEN "." \o FracStr(m % Pow10(nd - 1), nd - 1) ELSE "")
                 \o "e-" \o (IF -p < 10 THEN "0" ELSE "") \o IntStr(-p)
       ELSE IF e >= 0 THEN sign \o IntStr(m * Pow10(e)) \o ".0"
       ELSE sign \o IntStr(m \div Pow10(-e)) \o "." \o FracStr(m % Pow10(-e), -e)

-----------------------------------------------------------------------------
(* Natural numbers of any size: the sequence of their digits to the base    *)
(* 2^15, lowest digit first, no leading zero digit.                         *)

Base == 2 ^ 15

RECURSIVE Big(_)
Big(n) == IF n = 0 THEN <<>> ELSE <<n % Base>> \o Big(n \div Base)

RECURSIVE Small(_)
Small(x) == IF x = <<>> THEN 0 ELSE Head(x) + Base * Small(Tail(x))

Rest(x) == IF x = <<>> THEN <<>> ELSE Tail(x)
Low(x) == IF x = <<>> THEN 0 ELSE Head(x)

\* x with the digit d below it
Under(d, x) == IF x = <<>> /\ d = 0 THEN <<>> ELSE <<d>> \o x

RECURSIVE BAdd(_, _, _)
BAdd(x, y, c) ==
    IF x = <<>> /\ y = <<>> THEN Big(c)
    ELSE <<(Low(x) + Low(y) + c) % Base>>
         \o BAdd(Rest(x), Rest(y), (Low(x) + Low(y) + c) \div Base)

\* x - y - b for x >= y + b
RECURSIVE BSub(_, _, _)
BSub(x, y, b) ==
    IF x = <<>> THEN <<>>
    ELSE IF Head(x) - Low(y) - b < 0
         THEN Under(Head(x) - Low(y) - b + Base, BSub(Tail(x), Rest(y), 1))
         ELSE Under(Head(x) - Low(y) - b, BSub(Tail(x), Rest(y), 0))

\* x * k + c for a digit k
RECURSIVE BMulS(_, _, _)
BMulS(x, k, c) ==
    IF x = <<>> THEN Big(c)
    ELSE Under((Head(x) * k + c) % Base, BMulS(Tail(x), k, (Head(x) * k + c) \div Base))

RECURSIVE BMul(_, _)
BMul(x, y) ==
    IF y = <<>> \/ x = <<>> THEN <<>>
    ELSE BAdd(BMulS(x, Head(y), 0), Under(0, BMul(x, Tail(y))), 0)

\* quotient and remainder of x by k, 0 < k <= Base
RECURSIVE BDivS(_, _)
BDivS(x, k) ==
    IF x = <<>> THEN [q |-> <<>>, r |-> 0]
    ELSE LET hi == BDivS(Tail(x), k)
             cur == hi.r * Base + Head(x)
         IN [q |-> Under(cur \div k, hi.q), r |-> cur % k]

\* -1, 0, 1 as x is less than, equal to, greater than y
RECURSIVE BCmp(_, _)
BCmp(x, y) ==
    IF Len(x) # Len(y) THEN (IF Len(x) < Len(y) THEN -1 ELSE 1)
    ELSE IF x = <<>> THEN 0
    ELSE IF x[Len(x)] # y[Len(x)] THEN (IF x[Len(x)] < y[Len(x)] THEN -1 ELSE 1)
    ELSE BCmp(SubSeq(x, 1, Len(x) - 1), SubSeq(y, 1, Len(x) - 1))

RECURSIVE BitLen(_)
BitLen(n) == IF n = 0 THEN 0 ELSE 1 + BitLen(n \div 2)

BBits(x) == IF x = <<>> THEN 0 ELSE 15 * (Len(x) - 1) + BitLen(x[Len(x)])

\* x * 2^s
BShl(x, s) ==
    IF x = <<>> THEN <<>>
    ELSE [i \in 1..(s \div 15) |-> 0] \o BMulS(x, 2 ^ (s % 15), 0)

\* a quotient d with what was cut off before it
Cut(d, cut) == [q |-> d.q, lost |-> d.r # 0 \/ \E i \in DOMAIN cut : cut[i] # 0]

\* floor(x / 2^s), and whether anything was cut off
BShr(x, s) ==
    Cut(BDivS(SubSeq(x, s \div 15 + 1, Len(x)), 2 ^ (s % 15)),
        SubSeq(x, 1, IF s \div 15 < Len(x) THEN s \div 15 ELSE Len(x)))

\* k^n for a digit k
RECURSIVE BPow(_, _)
BPow(k, n) == IF n = 0 THEN <<1>> ELSE BMulS(BPow(k, n - 1), k, 0)

\* floor(x.q / k^n), and whether anything was cut off, by x or here
RECURSIVE BDivPow(_, _, _)
BDivPow(x, k, n) ==
    IF n = 0 THEN x
    ELSE LET d == BDivS(x.q, k)
         IN BDivPow([q |-> d.q, lost |-> x.lost \/ d.r # 0], k, n - 1)

\* the largest digit d in lo..hi with d * y <= x
RECURSIVE BDigit(_, _, _, _)
BDigit(x, y, lo, hi) ==
    IF lo = hi THEN lo
    ELSE IF BCmp(BMulS(y, (lo + hi + 1) \div 2, 0), x) <= 0
         THEN BDigit(x, y, (lo + hi + 1) \div 2, hi)
         ELSE BDigit(x, y, lo, (lo + hi + 1) \div 2 - 1)

\* the digit d put below the quotient q, and what is left of cur
LongStep(q, cur, y, d) == [q |-> Under(d, q), r |-> BSub(cur, BMulS(y, d, 0), 0)]

LongDigit(q, cur, y) ==
    LongStep(q, cur, y, IF BCmp(cur, y) < 0 THEN 0 ELSE BDigit(cur, y, 1, Base - 1))

\* quotient and remainder of x by y # 0, digit by digit from the highest
RECURSIVE BDivMod(_, _)
BDivMod(x, y) ==
    IF x = <<>> THEN [q |-> <<>>, r |-> <<>>]
    ELSE LET hi == BDivMod(Tail(x), y)
         IN LongDigit(hi.q, Under(Head(x), hi.r), y)

-----------------------------------------------------------------------------
(* IEEE 754 binary64, round to nearest, ties to even: a double is            *)
(* (-1)^neg * q * 2^e with 2^52 <= q < 2^53, or q = 0.                       *)

\* q may have got a 54th bit by rounding up
Renormal(neg, q, e) ==
    IF BBits(q) > 53 THEN [neg |-> neg, q |-> BShr(q, 1).q, e |-> e + 1]
    ELSE [neg |-> neg, q |-> q, e |-> e]

\* h: the 53 bits and, as h.r, the bit after them
TiesToEven(neg, h, e, inexact) ==
    Renormal(neg, IF h.r = 1 /\ (inexact \/ h.q[1] % 2 = 1) THEN BAdd(h.q, <<1>>, 0) ELSE h.q, e)

\* t: the first 54 bits of the number, and whether anything was cut off after them
Nearest(neg, t, e, inexact) == TiesToEven(neg, BDivS(t.q, 2), e, t.lost \/ inexact)

\* the double nearest to x.n * 2^(x.e); x.lost: a fraction of a unit of x.n was
\* cut off before (x.n then has more than 54 bits)
RoundTo53(neg, x) ==
    IF x.n = <<>> THEN [neg |-> neg, q |-> <<>>, e |-> 0]
    ELSE IF BBits(x.n) <= 53
    THEN [neg |-> neg, q |-> BShl(x.n, 53 - BBits(x.n)), e |-> x.e - (53 - BBits(x.n))]
    ELSE Nearest(neg, BShr(x.n, BBits(x.n) - 54), x.e + BBits(x.n) - 53, x.lost)

Exactly(n, e) == [n |-> n, e |-> e, lost |-> FALSE]
Roughly(d, e) == [n |-> d.q, e |-> e, lost |-> d.lost]

\* float('<decimal>'): the double nearest to the decimal x
Double(x) ==
    RoundTo53(x.neg,
              IF x.e >= 0 THEN Exactly(BMul(Big(x.m), BPow(10, x.e)), 0)
              ELSE Roughly(BDivPow([q |-> BShl(Big(x.m), 64 - 3 * x.e), lost |-> FALSE], 5, -x.e),
                           4 * x.e - 64))

\* x * y and x / y of two doubles
FMul(x, y) == RoundTo53(x.neg # y.neg, Exactly(BMul(x.q, y.q), x.e + y.e))

Quotient(d, e) == [n |-> d.q, e |-> e, lost |-> d.r # <<>>]

FDiv(x, y) == RoundTo53(x.neg # y.neg, Quotient(BDivMod(BShl(x.q, 60), y.q), x.e - 60 - y.e))

\* x < y for doubles x, y >= 0
FLess(x, y) ==
    IF y.q = <<>> THEN FALSE
    ELSE IF x.q = <<>> THEN TRUE
    ELSE x.e < y.e \/ (x.e = y.e /\ BCmp(x.q, y.q) < 0)

\* math.trunc(x) for a double x >= 0
FTrunc(x) == IF x.e >= 0 THEN Small(BShl(x.q, x.e)) ELSE Small(BShr(x.q, -x.e).q)

\* 10 ** n: an int for n >= 0, which arithmetic with a float converts exactly, and
\* the float nearest to 10^n for n < 0
PyPow10(n) == Double(Dec(FALSE, 1, n))

\* n * 2^e, cut to an integer
Binary(n, e) == IF e >= 0 THEN [q |-> BShl(n, e), lost |-> FALSE] ELSE BShr(n, -e)

\* h: twice the number cut to an integer, halved, with the half as h.r
HalfEven(neg, h, inexact, ndigits) ==
    Dec(neg, Small(h.q) + (IF h.r = 1 /\ (inexact \/ Low(h.q) % 2 = 1) THEN 1 ELSE 0), -ndigits)

Halved(neg, t, ndigits) == HalfEven(neg, BDivS(t.q, 2), t.lost, ndigits)

\* the double x to ndigits decimal places, correctly rounded from its exact
\* binary value, ties to even
RoundHalfEven(x, ndigits) ==
    Halved(x.neg,
           BDivPow(Binary(BMulS(IF ndigits > 0 THEN BMul(x.q, BPow(10, ndigits)) ELSE x.q, 2, 0), x.e),
                   10, IF ndigits < 0 THEN -ndigits ELSE 0),
           ndigits)

\* round(x, ndigits) of the float x
Round(x, ndigits) == RoundHalfEven(Double(x), ndigits)

\* the decimal y of n >= 0 places, printed
Fixed(y, n) ==
    (IF y.neg THEN "-" ELSE "") \o IntStr(y.m \div Pow10(n))
    \o (IF n > 0 THEN "." \o FracStr(y.m % Pow10(n), n) ELSE "")

\* '{:.<n>f}'.format(x) of the double x
FormatF(x, n) == Fixed(RoundHalfEven(x, n), n)

\* the integer y right-aligned in a field of w characters
FixedW(y, w) == Spaces(w - (IF y.neg THEN 1 ELSE 0) - NumDigits(y.m)) \o Fixed(y, 0)

\* '{:<w>.0f}'.format(x) of the double x
FormatWF0(x, w) == FixedW(RoundHalfEven(x, 0), w)

-----------------------------------------------------------------------------
(* ordinal *)

ordinal(n) ==
    LET s == <<"t", "s", "n", "r", "h", "t", "d", "d">>
        a == IF (n \div 10) % 10 # 1 THEN 1 ELSE 0
        b == IF n % 10 < 4 THEN 1 ELSE 0
        i == (a * b * n) % 10
    IN IntStr(n) \o s[i + 1] \o s[i + 5]

-----------------------------------------------------------------------------
(* iucr_string *)

\* abs(values[1])
Abs(x) == Dec(FALSE, x.m, x.e)

\* line 77: math.trunc(abs(values[1]) * 10 ** (2 - sig_pos)), the first three
\* significant digits of the s.u. as an integer
Lead3(asu, sig_pos) == FTrunc(FMul(Double(asu), PyPow10(2 - sig_pos)))

\* lines 77-78: sig_3, the three digits moved behind the decimal separator
Sig3(asu, sig_pos) ==
    FMul(FDiv(Double(Dec(FALSE, Lead3(asu, sig_pos), 0)), PyPow10(2 - sig_pos)),
         PyPow10(-(sig_pos + 1)))

\* the branch of lines 80-92 taken: "two", "one" or "carry"
Branch(sig_3) ==
    IF FLess(sig_3, Double(Dec(FALSE, 195, -3))) THEN "two"
    ELSE IF FLess(sig_3, Double(Dec(FALSE, 950, -3))) THEN "one"
    ELSE "carry"

\* lines 94-100, from the rounded s.u. and average
iucr_format(br, sig_pos, sig_len, su, avg) ==
    [branch |-> br, sig_pos |-> sig_pos, sig_len |-> sig_len, su |-> su, avg |-> avg,
     \* the field width sig_pos + sign_shift only pads, and strip() removes the padding
     avg_str |-> FormatF(Double(avg), IF sig_pos > 0 THEN 0 ELSE -sig_pos + sig_len - 1),
     su_str |-> IF sig_pos > 0
                THEN FormatWF0(Double(su), sig_pos)
                ELSE FormatF(FDiv(Double(su), PyPow10(sig_pos - sig_len + 1)), 0)]

\* lines 80-92, in the branch br
iucr_round(v, sig_pos, br) ==
    LET pos == IF br = "carry" THEN sig_pos + 1 ELSE sig_pos
        sig_len == IF br = "one" THEN 1 ELSE 2
    IN iucr_format(br, pos, sig_len,
                   Round(Abs(v[2]), sig_len - 1 - pos), Round(v[1], sig_len - 1 - pos))

\* everything iucr_string computes for an s.u. that is neither 0 nor None
iucr_parts(v) ==
    iucr_round(v, FloorLog10(v[2]), Branch(Sig3(Abs(v[2]), FloorLog10(v[2]))))

\* '{:s}({:s})'.format(avg_str, su_str)
Printed(p) == p.avg_str \o "(" \o p.su_str \o ")"

iucr_string(v) ==
    IF v[2] = None THEN FloatStr(v[1])
    ELSE IF v[2].m = 0 THEN FloatStr(v[1])
    ELSE Printed(iucr_parts(v))

-----------------------------------------------------------------------------
(* nibble_numbers; a line of text is a sequence of characters *)

DigitChars == {Digit(d) : d \in 0..9}

DigitOf(c) == CHOOSE d \in 0..9 : Digit(d) = c

IsSpace(c) == c \in {" ", "\n"}

\* s[a:b] of Python for 0 <= a <= b: the characters a+1..b that exist
Slice(s, a, b) == SubSeq(s, a + 1, IF b < Len(s) THEN b ELSE Len(s))

\* s.strip()
RECURSIVE Strip(_)
Strip(s) ==
    IF s = <<>> THEN s
    ELSE IF IsSpace(s[1]) THEN Strip(Tail(s))
    ELSE IF IsSpace(s[Len(s)]) THEN Strip(SubSeq(s, 1, Len(s) - 1))
    ELSE s

RECURSIVE DigitsValue(_)
DigitsValue(s) ==
    IF s = <<>> THEN 0 ELSE 10 * DigitsValue(SubSeq(s, 1, Len(s) - 1)) + DigitOf(s[Len(s)])

\* float(s) for text without exponent: optional blanks, an optional sign, digits
\* with at most one decimal point and at least one digit
float(s) ==
    LET t == Strip(s)
        signed == t # <<>> /\ t[1] \in {"-", "+"}
        body == IF signed THEN Tail(t) ELSE t
        points == {i \in 1..Len(body) : body[i] = "."}
        digits == SelectSeq(body, LAMBDA c : c \in DigitChars)
        after == IF points = {} THEN 0
                 ELSE Len(body) - (CHOOSE i \in points : TRUE)
    IN IF /\ \A i \in 1..Len(body) : body[i] \in DigitChars \cup {"."}
          /\ Cardinality(points) <= 1
          /\ digits # <<>>
       THEN Return(Dec(signed /\ t[1] = "-", DigitsValue(digits), -after))
       ELSE Raise(ValueError)

\* numbers after i of the count slices have been converted; the first slice that
\* is no number raises
RECURSIVE NibbleFrom(_, _, _, _, _)
NibbleFrom(line_, cnt, len, i, acc) ==
    IF i >= cnt THEN Return(acc)
    ELSE LET x == float(Slice(line_, i * len, (i + 1) * len))
         IN IF x.exc # "" THEN Raise(x.exc)
            ELSE NibbleFrom(line_, cnt, len, i + 1, Append(acc, x.val))

nibble_numbers(line_, cnt, len) == NibbleFrom(line_, cnt, len, 0, <<>>)

-----------------------------------------------------------------------------
(* The descriptive items, lines 282-323.  A text item is the sequence of the   *)
(* pieces the code concatenates.                                               *)

PHASE_NUMBER == 1
NUM_LEN == 9

\* a Python value with its type: == and != between a float and a str compare
\* the types first, so the two are never equal
PyFloat(x) == [type |-> "float", num |-> x, str |-> ""]
PyStr(t) == [type |-> "str", num |-> Dec(FALSE, 0, 0), str |-> t]

NumEqual(x, y) ==
    IF x.m = 0 \/ y.m = 0 THEN x.m = y.m
    ELSE /\ x.neg = y.neg
         /\ StripZeros(x.m) = StripZeros(y.m)
         /\ x.e + TrailingZeros(x.m) = y.e + TrailingZeros(y.m)

py_ne(a, b) ==
    IF a.type # b.type THEN TRUE
    ELSE IF a.type = "float" THEN ~NumEqual(a.num, b.num)
    ELSE a.str # b.str

\* int(s) of a selection value
IntOf(t) == CHOOSE n \in 0..99 : IntStr(n) = t

\* dict(zip(['zero', 'sycos', 'sysin'], nibble_numbers(line, 3))), lines 162 and 200
ShiftDict(r) == [zero |-> r.val[1], sycos |-> r.val[2], sysin |-> r.val[3]]

\* lines 282-284
SpecialDetails(sh, sh_su) ==
    IF py_ne(PyFloat(sh.zero), PyStr("0.000000"))
    THEN <<"zero-point correction: ", iucr_string(<<sh.zero, sh_su.zero>>)>>
    ELSE <<"\n">>

\* '0' if profile[key] == 0.0 else iucr_string((profile[key], profile_su[key]))
ZeroOr(x, x_su) == IF IsZero(x) THEN "0" ELSE iucr_string(<<x, x_su>>)

\* ', <label> = ' + iucr_string(...) if the coefficient is not 0.0, lines 295, 301, 303
Unless0(label, x, x_su) ==
    IF ~IsZero(x) THEN <<label, iucr_string(<<x, x_su>>)>> ELSE <<>>

PseudoVoigt ==
    "pseudo-Voigt profile according to Thompson, Cox & Hastings (1987): G~U~ = "

Howard == ";\nasymmetry correction according to Howard (1982): P = "

\* lines 287-308
ProfileFunction(sel, psel, pr, pr_su, as, as_su) ==
    <<"\n">>
    \o (IF psel[PHASE_NUMBER].proffun = "3"
        THEN <<PseudoVoigt, ZeroOr(pr.GU, pr_su.GU),
               ", G~V~ = ", ZeroOr(pr.GV, pr_su.GV),
               ", G~W~ = ", ZeroOr(pr.GW, pr_su.GW)>>
             \o Unless0(", G~P~ = ", pr.GP, pr_su.GP)
             \o <<", L~X~ = ", ZeroOr(pr.LX, pr_su.LX),
                  ", L~Y~ = ", ZeroOr(pr.LY, pr_su.LY)>>
             \o Unless0(", L~Xe~ = ", pr.LXe, pr_su.LXe)
             \o Unless0(", L~Ye~ = ", pr.LYe, pr_su.LYe)
        ELSE <<>>)
    \o (IF sel.asymm = "1" THEN <<Howard, iucr_string(<<as, as_su>>)>> ELSE <<>>)

ManualBackground == "manual background (visual estimation, unrefined)"

Legendre1st == " Legendre polynomials [1st: "

\* ', {:s}: '.format(ordinal(i))
EntryLabel(i) == ", " \o ordinal(i) \o ": "

\* the loop of lines 319-321 from i on
RECURSIVE Entries(_, _, _, _)
Entries(i, n, bg, bg_su) ==
    IF i > n THEN <<>>
    ELSE <<EntryLabel(i), iucr_string(<<bg[i], bg_su[i]>>)>>
         \o Entries(i + 1, n, bg, bg_su)

\* lines 311-322; background[0] of an empty list raises IndexError
BackgroundFunction(sel, bg, bg_su) ==
    IF sel.bckgtype = "1" /\ (bg = <<>> \/ bg_su = <<>>) THEN Raise(IndexError)
    ELSE Return(
        <<"\n">>
        \o (IF sel.manbckg = "1" THEN <<ManualBackground>> ELSE <<>>)
        \o (IF sel.manbckg = "1" /\ sel.bckgtype = "1" THEN <<" interpolated by ">> ELSE <<>>)
        \o (IF sel.bckgtype = "1"
            THEN <<sel.bckgnum, Legendre1st, iucr_string(<<bg[1], bg_su[1]>>)>>
            ELSE <<>>)
        \o Entries(2, IntOf(sel.bckgnum), bg, bg_su)
        \o <<"]">>)

-----------------------------------------------------------------------------
(* iucr_string applied to chosen pairs, then to the pair it printed *)

MaxDecimals == 6
MaxTail == 1

Lead3s == {100, 104, 105, 115, 149, 150, 194, 195, 196, 199, 200, 249, 250, 251,
           350, 549, 900, 945, 949, 950, 951, 994, 995, 999}

\* s.u.'s: three leading digits, a fourth digit, and the place of the last digit
SuInputs ==
    {Dec(FALSE, 10 * k + t, -d) : k \in Lead3s, t \in 0..MaxTail, d \in 0..MaxDecimals}
    \cup {Dec(FALSE, k \div 10, -d) : k \in {100, 250, 950}, d \in 1..2}
    \cup {Dec(TRUE, 56, -3), Dec(FALSE, 0, 0), None}

AvgInputs ==
    {Dec(FALSE, 0, 0), Dec(FALSE, 1234565, -6), Dec(TRUE, 123, -1),
     Dec(TRUE, 4, -5), Dec(FALSE, 5, -1), Dec(FALSE, 1, -2)}

IdleFmt ==
    /\ values = None /\ fout = None
    /\ values2 = None /\ fout2 = None /\ fpc = Idle

IdleData ==
    /\ skipped = <<>> /\ phase_select = <<>> /\ select = None
    /\ shift = None /\ background = <<>> /\ asymm = None /\ profile = None
    /\ shift_su = None /\ background_su = <<>> /\ asymm_su = None /\ profile_su = None

IdleM41 ==
    /\ read_file = <<>> /\ cursor = 0 /\ line = None /\ pc = Idle /\ su_pass = FALSE
    /\ phase_count = 0 /\ rows = <<>> /\ nibbled = <<>>
    /\ line_old = None /\ rb_obs = None /\ assigned = <<>>

IdleItems ==
    /\ pd_proc_ls_special_details = <<>> /\ pd_proc_ls_profile_function = <<>>
    /\ pd_proc_ls_background_function = <<>> /\ shift_lines = <<>> /\ apc = Idle

IdleNib ==
    /\ input_line = <<>> /\ count = 0 /\ length = 0 /\ numbers = None /\ npc = Idle

HasSu(v) == v[2] # None /\ v[2].m # 0

InitFmt ==
    /\ values \in AvgInputs \X SuInputs
    /\ fout = None
    /\ values2 = None
    /\ fout2 = None
    /\ fpc = "start"
    /\ IdleNib /\ IdleData /\ IdleItems /\ IdleM41

\* what a call returns, with what it computed on the way
Outcome(p) == [str |-> Printed(p)] @@ p

\* iucr_string(values)
Format ==
    /\ fpc = "start"
    /\ fout' = IF HasSu(values) THEN Outcome(iucr_parts(values))
               ELSE [str |-> iucr_string(values)]
    /\ fpc' = "formatted"
    /\ UNCHANGED <<values, values2, fout2, nibVars, dataVars, itemVars, m41Vars>>

\* iucr_string of the rounded pair the first call printed
Reformat ==
    /\ fpc = "formatted"
    /\ HasSu(values)
    /\ values2' = <<fout.avg, fout.su>>
    /\ fout2' = Outcome(iucr_parts(values2'))
    /\ fpc' = "reformatted"
    /\ UNCHANGED <<values, fout, nibVars, dataVars, itemVars, m41Vars>>

NextFmt == Format \/ Reformat

SpecFmt == InitFmt /\ [][NextFmt]_vars

\* the first three significant digits of an s.u., as the decimal number has them
Lead3Of(su) ==
    LET nd == NumDigits(su.m)
    IN IF nd <= 3 THEN su.m * Pow10(3 - nd) ELSE su.m \div Pow10(nd - 3)

\* the zeros that hold the place of an s.u. rounded left of the units
PlaceHolder(o) ==
    IF o.sig_pos - o.sig_len + 1 > 0 THEN Pow10(o.sig_pos - o.sig_len + 1) ELSE 1

SuDigitsAllowed(k) == IF k < 195 THEN 10..19 ELSE IF k < 950 THEN 2..9 ELSE {10}

\* C5: for every central value and every s.u. > 0 the significant digits printed
\* in the parentheses are 10..19 when lead3 < 0.195, one digit 2..9 when
\* 0.195 <= lead3 < 0.950, and exactly 10 when lead3 >= 0.950.
C5_SuDigitsInRange ==
    fpc # "start" /\ HasSu(values) =>
        fout.su_str \in {IntStr(n * PlaceHolder(fout)) : n \in SuDigitsAllowed(Lead3Of(values[2]))}

\* C6: iucr_string of the rounded average and rounded s.u. that iucr_string printed
\* returns the identical string.
C6_FixedPoint == fpc = "reformatted" => fout2.str = fout.str

-----------------------------------------------------------------------------
(* nibble_numbers applied to chosen lines *)

MaxLineLen == 5
MaxCount == 2
MaxWidth == 3

Alphabet == {" ", "-", ".", "7"}

RECURSIVE Texts(_)
Texts(n) ==
    IF n = 0 THEN {<<>>}
    ELSE LET shorter == Texts(n - 1)
         IN shorter \cup {Append(t, c) : t \in {u \in shorter : Len(u) = n - 1}, c \in Alphabet}

InitNib ==
    /\ input_line \in Texts(MaxLineLen)
    /\ count \in 0..MaxCount
    /\ length \in 1..MaxWidth
    /\ numbers = None
    /\ npc = "call"
    /\ IdleFmt /\ IdleData /\ IdleItems /\ IdleM41

\* numbers = nibble_numbers(input_line, count, length)
Nibble ==
    /\ npc = "call"
    /\ numbers' = nibble_numbers(input_line, count, length)
    /\ npc' = IF numbers'.exc = "" THEN "returned" ELSE "raised"
    /\ UNCHANGED <<input_line, count, length, fmtVars, dataVars, itemVars, m41Vars>>

NextNib == Nibble

SpecNib == InitNib /\ [][NextNib]_vars

\* C7: nibble_numbers raises for every line shorter than count * length characters,
\* and returns count numbers, the i-th read from characters [i*length, (i+1)*length),
\* only when every one of the count slices is a full-width valid number.
C7_ShortLineRaises ==
    npc \in {"returned", "raised"} =>
        /\ Len(input_line) < count * length => numbers.exc = ValueError
        /\ numbers.exc = "" =>
              /\ Len(numbers.val) = count
              /\ \A i \in 0..(count - 1) :
                    LET sl == Slice(input_line, i * length, (i + 1) * length)
                    IN /\ Len(sl) = length
                       /\ float(sl).exc = ""
                       /\ numbers.val[i + 1] = float(sl).val

-----------------------------------------------------------------------------
(* The items assembled from chosen scan results *)

MaxTerms == 3

ZeroField == <<" ", "0", ".", "0", "0", "0", "0", "0", "0">>
Field12345 == <<" ", "0", ".", "0", "1", "2", "3", "4", "5">>
FieldMinus == <<"-", "0", ".", "0", "0", "1", "9", "5", "1">>
SuField == <<" ", "0", ".", "0", "0", "0", "9", "6", "0">>
Newline == <<"\n">>

\* the lines after '# Shift' in the value block and in the s.u. block
ShiftLinePairs ==
    {<<z \o ZeroField \o ZeroField \o Newline, u \o ZeroField \o ZeroField \o Newline>> :
        z \in {ZeroField, Field12345, FieldMinus}, u \in {ZeroField, SuField}}

Selections ==
    [asymm : {"0", "1"}, manbckg : {"0", "1"}, bckgtype : {"0", "1", "2"},
     bckgnum : {IntStr(n) : n \in 0..MaxTerms}]

ProfileKeys == {"GU", "GV", "GW", "GP", "LX", "LXe", "LY", "LYe"}

Profiles ==
    {[GU |-> Dec(FALSE, 12, -3), GV |-> Dec(TRUE, 5, -3), GW |-> Dec(FALSE, 0, 0),
      GP |-> Dec(FALSE, 0, 0), LX |-> Dec(FALSE, 1234, -3), LXe |-> Dec(FALSE, 0, 0),
      LY |-> Dec(FALSE, 0, 0), LYe |-> Dec(FALSE, 0, 0)],
     [GU |-> Dec(FALSE, 12, -3), GV |-> Dec(TRUE, 5, -3), GW |-> Dec(FALSE, 7, -3),
      GP |-> Dec(FALSE, 3, -3), LX |-> Dec(FALSE, 1234, -3), LXe |-> Dec(FALSE, 2, -2),
      LY |-> Dec(FALSE, 25, -2), LYe |-> Dec(TRUE, 1, -1)]}

ProfileSu == [k \in ProfileKeys |-> Dec(FALSE, 21, -4)]

InitItems ==
    /\ select \in Selections
    /\ phase_select \in {<<[proffun |-> pf]>> : pf \in {"1", "2", "3"}}
    /\ shift_lines \in ShiftLinePairs
    /\ skipped = <<>>
    /\ shift = None /\ shift_su = None
    /\ background = [i \in 1..IntOf(select.bckgnum) |-> Dec(i = 2, 1000 + 7 * i, -4)]
    /\ background_su = [i \in 1..IntOf(select.bckgnum) |-> Dec(FALSE, 5 * i, -4)]
    /\ asymm = IF select.asymm = "1" THEN Dec(FALSE, 314, -4) ELSE None
    /\ asymm_su = IF select.asymm = "1" THEN Dec(FALSE, 12, -4) ELSE None
    /\ profile \in Profiles
    /\ profile_su = ProfileSu
    /\ pd_proc_ls_special_details = <<>>
    /\ pd_proc_ls_profile_function = <<>>
    /\ pd_proc_ls_background_function = <<>>
    /\ apc = "shift"
    /\ IdleFmt /\ IdleNib /\ IdleM41

scanVars == <<skipped, phase_select, select, background, asymm, profile,
              background_su, asymm_su, profile_su, shift_lines>>

\* lines 162 and 200: the shift terms and their s.u.'s, read from their lines
ReadShiftLines ==
    /\ apc = "shift"
    /\ LET r == nibble_numbers(shift_lines[1], 3, NUM_LEN)
           r_su == nibble_numbers(shift_lines[2], 3, NUM_LEN)
       IN IF r.exc # "" \/ r_su.exc # ""
          THEN /\ apc' = "error"
               /\ UNCHANGED <<shift, shift_su>>
          ELSE /\ shift' = ShiftDict(r)
               /\ shift_su' = ShiftDict(r_su)
               /\ apc' = "special"
    /\ UNCHANGED <<pd_proc_ls_special_details, pd_proc_ls_profile_function,
                   pd_proc_ls_background_function, scanVars, fmtVars, nibVars, m41Vars>>

\* lines 282-285
BuildSpecialDetails ==
    /\ apc = "special"
    /\ pd_proc_ls_special_details' = SpecialDetails(shift, shift_su)
    /\ apc' = "profile"
    /\ UNCHANGED <<shift, shift_su, pd_proc_ls_profile_function,
                   pd_proc_ls_background_function, scanVars, fmtVars, nibVars, m41Vars>>

\* lines 287-309
BuildProfileFunction ==
    /\ apc = "profile"
    /\ pd_proc_ls_profile_function' =
          ProfileFunction(select, phase_select, profile, profile_su, asymm, asymm_su)
    /\ apc' = "background"
    /\ UNCHANGED <<shift, shift_su, pd_proc_ls_special_details,
                   pd_proc_ls_background_function, scanVars, fmtVars, nibVars, m41Vars>>

\* lines 311-323
BuildBackgroundFunction ==
    /\ apc = "background"
    /\ LET r == BackgroundFunction(select, background, background_su)
       IN IF r.exc # ""
          THEN /\ apc' = "error"
               /\ UNCHANGED pd_proc_ls_background_function
          ELSE /\ pd_proc_ls_background_function' = r.val
               /\ apc' = "done"
    /\ UNCHANGED <<shift, shift_su, pd_proc_ls_special_details,
                   pd_proc_ls_profile_function, scanVars, fmtVars, nibVars, m41Vars>>

NextItems ==
    ReadShiftLines \/ BuildSpecialDetails \/ BuildProfileFunction \/ BuildBackgroundFunction

SpecItems == InitItems /\ [][NextItems]_vars

Has(item, piece) == \E i \in 1..Len(item) : item[i] = piece

HowMany(item, piece) == Cardinality({i \in 1..Len(item) : item[i] = piece})

\* the text of the zero-point field of the value line, without its blanks
ZeroText == Strip(Slice(shift_lines[1], 0, NUM_LEN))

\* C2: the special-details note holds the zero-point clause only if the zero-point
\* field of the log does not read 0.000000; when it reads 0.000000 the note stays
\* at its empty default.
C2_ZeroShiftSuppressed ==
    apc \in {"profile", "background", "done"} =>
        IF ZeroText = Strip(ZeroField)
        THEN pd_proc_ls_special_details = <<"\n">>
        ELSE Has(pd_proc_ls_special_details, "zero-point correction: ")

\* C3: the profile-function note has content only if proffun of the active phase is
\* '3'; otherwise it is empty, whatever asymm is; the asymmetry clause appears only
\* after a pseudo-Voigt description and only if asymm = '1'.
C3_ProfileOnlyPseudoVoigt ==
    apc \in {"background", "done"} =>
        /\ phase_select[PHASE_NUMBER].proffun # "3" =>
              pd_proc_ls_profile_function = <<"\n">>
        /\ Has(pd_proc_ls_profile_function, Howard) =>
              /\ select.asymm = "1"
              /\ Has(pd_proc_ls_profile_function, PseudoVoigt)

IsEntryLabel(piece) == piece = Legendre1st \/ \E i \in 2..(MaxTerms + 1) : piece = EntryLabel(i)

\* the label and the value of the i-th coefficient entry
EntryOf(i) ==
    <<IF i = 1 THEN Legendre1st ELSE EntryLabel(i),
      iucr_string(<<background[i], background_su[i]>>)>>

\* C4: the background note holds coefficient entries and brackets only when
\* bckgtype = '1'; then (bckgnum >= 1) it holds one bracketed list of exactly bckgnum
\* entries, the i-th labelled ordinal(i) and formatted from (background[i-1],
\* background_su[i-1]); otherwise it holds no entry and no ']'.
C4_BracketsOnlyPolynomial ==
    apc = "done" =>
        LET item == pd_proc_ls_background_function
            n == IntOf(select.bckgnum)
            labels == {i \in 1..Len(item) : IsEntryLabel(item[i])}
        IN IF select.bckgtype = "1"
           THEN n >= 1 =>
                  /\ HowMany(item, Legendre1st) = 1
                  /\ HowMany(item, "]") = 1
                  /\ item[Len(item)] = "]"
                  /\ Cardinality(labels) = n
                  /\ \E first \in 1..Len(item) :
                        /\ item[first] = Legendre1st
                        /\ \A i \in 1..n :
                              SubSeq(item, first + 2 * (i - 1), first + 2 * i - 1) = EntryOf(i)
           ELSE labels = {} /\ ~Has(item, "]")

-----------------------------------------------------------------------------
(* The scan of *.m41, lines 141-233.  A line of the log is held as its prefix *)
(* (what startswith looks at), its whitespace-separated tokens (what split    *)
(* returns) and, for a line of numbers, the numbers its NUM_LEN-wide fields   *)
(* hold; Text gives the characters nibble_numbers cuts.                       *)

LogLine(pre, tokens, nums) == [pre |-> pre, tokens |-> tokens, nums |-> nums]

\* '' as readline returns it at end-of-file
EofLine == LogLine("", <<>>, <<>>)

Field9(n) == <<" ", "0", ".">> \o [i \in 1..6 |-> Digit((n \div Pow10(6 - i)) % 10)]

RECURSIVE Fields(_)
Fields(nums) == IF nums = <<>> THEN <<>> ELSE Field9(Head(nums)) \o Fields(Tail(nums))

\* the characters of a line; a line that holds no numbers is cut to its first character
Text(l) ==
    IF l = EofLine THEN <<>>
    ELSE IF l.pre = " " THEN Fields(l.nums) \o <<"\n">>
    ELSE <<"#">>

\* line.startswith(prefix)
StartsWith(l, prefix) == l.pre = prefix

\* read_file.readline() and next(read_file): the line and the lines consumed after it
ReadLine(f, c) == IF c < Len(f) THEN f[c + 1] ELSE EofLine
Advance(f, c) == IF c < Len(f) THEN c + 1 ELSE c

\* dict(zip(tokens[::2], tokens[1::2])): a later pair replaces an earlier one
RECURSIVE ZipDict(_)
ZipDict(tokens) ==
    IF Len(tokens) < 2 THEN <<>>
    ELSE LET n == 2 * (Len(tokens) \div 2)
         IN (tokens[n - 1] :> tokens[n]) @@ ZipDict(SubSeq(tokens, 1, n - 2))

\* the sections the code looks for, and the marker of each
Marker(stage) ==
    CASE stage = "shift" -> "# Shift"
      [] stage = "background" -> "# Background"
      [] stage = "asymmetry" -> "# Asymmetry"
      [] stage = "phase_seek" -> "### phase"
      [] stage = "gaussian" -> "# Gaussian"
      [] stage = "lorentzian" -> "# Lorentzian"

SeekStages == {"shift", "background", "asymmetry", "phase_seek", "gaussian", "lorentzian"}

\* the remainder of the coefficients is taken for none
RemainderDropped(n) == 0 * n

\* the phase after the one to put out
PhaseAfter(n) == n = PHASE_NUMBER + 1

\* range(0, math.trunc(int(select['bckgnum']) / 6)) and int(select['bckgnum']) % 6
FullRows(n) == n \div 6
LastRow(n) == n % 6

\* [item for sublist in background for item in sublist]
RECURSIVE Flatten(_)
Flatten(ll) == IF ll = <<>> THEN <<>> ELSE Head(ll) \o Flatten(Tail(ll))

\* while not phase_count == PHASE_NUMBER
PhaseReached(n) == n = PHASE_NUMBER

Gaussians == <<"GU", "GV", "GW", "GP">>
Lorentzians == <<"LX", "LXe", "LY", "LYe">>

\* for key, value in zip(keys, nibble_numbers(...)): profile[key] = value
KeysInto(d, keys, vals) ==
    LET new == [k \in {keys[i] : i \in 1..Len(keys)} |->
                   vals[CHOOSE i \in 1..Len(keys) : keys[i] = k]]
    IN new @@ d

Nibbled(item) == Append(nibbled, [item |-> item, su |-> su_pass, at |-> cursor + 1])

Fail == pc' = "error"

\* lines 147-156, one turn of the for loop
HeaderLine ==
    /\ pc = "header"
    /\ cursor < Len(read_file)
    /\ LET l == read_file[cursor + 1]
           l1 == ReadLine(read_file, cursor + 1)
           l2 == ReadLine(read_file, Advance(read_file, cursor + 1))
           two == LogLine(IF l1 = EofLine THEN l2.pre ELSE l1.pre,
                          l1.tokens \o l2.tokens, <<>>)
       IN IF StartsWith(l, "skipfrto")
          THEN /\ cursor' = cursor + 1
               /\ line' = l
               /\ IF Len(l.tokens) < 3
                  THEN Fail /\ UNCHANGED skipped
                  ELSE pc' = pc /\ skipped' = Append(skipped, <<l.tokens[2], l.tokens[3]>>)
               /\ UNCHANGED <<phase_select, select>>
          ELSE IF StartsWith(l, "phase")
          THEN /\ cursor' = Advance(read_file, Advance(read_file, cursor + 1))
               /\ line' = two
               /\ phase_select' = Append(phase_select, ZipDict(two.tokens))
               /\ UNCHANGED <<pc, skipped, select>>
          ELSE IF StartsWith(l, "end")
          THEN /\ cursor' = cursor + 1
               /\ line' = l
               /\ pc' = "shift"
               /\ UNCHANGED <<skipped, phase_select, select>>
          ELSE /\ cursor' = cursor + 1
               /\ line' = l
               /\ select' = ZipDict(l.tokens) @@ select
               /\ UNCHANGED <<pc, skipped, phase_select>>
    /\ UNCHANGED <<read_file, su_pass, phase_count, rows, nibbled, shift, background, asymm,
                   profile, shift_su, background_su, asymm_su, profile_su,
                   fmtVars, nibVars, itemVars, refOnly>>

\* the for loop of line 147 runs out of lines; line 160 then reads the variable line,
\* which is unbound if the log held no line at all
HeaderEnds ==
    /\ pc = "header"
    /\ cursor = Len(read_file)
    /\ pc' = IF line = None THEN "error" ELSE "shift"
    /\ UNCHANGED <<read_file, cursor, line, su_pass, phase_count, rows, nibbled, dataVars,
                   fmtVars, nibVars, itemVars, refOnly>>

\* while not line.startswith(marker): line = read_file.readline()
\* (lines 160, 165, 175, 185, 188, 192 and their twins of the s.u. pass)
Seek ==
    /\ pc \in SeekStages
    /\ ~StartsWith(line, Marker(pc))
    /\ line' = ReadLine(read_file, cursor)
    /\ cursor' = Advance(read_file, cursor)
    /\ UNCHANGED <<read_file, pc, su_pass, phase_count, rows, nibbled, dataVars,
                   fmtVars, nibVars, itemVars, refOnly>>

\* lines 162 and 200
ReadShift ==
    /\ pc = "shift"
    /\ StartsWith(line, "# Shift")
    /\ LET r == nibble_numbers(Text(ReadLine(read_file, cursor)), 3, NUM_LEN)
       IN /\ cursor' = Advance(read_file, cursor)
          /\ nibbled' = Nibbled("shift")
          /\ IF r.exc # ""
             THEN Fail /\ UNCHANGED <<shift, shift_su>>
             ELSE /\ pc' = "background"
                  /\ IF su_pass
                     THEN shift_su' = ShiftDict(r) /\ UNCHANGED shift
                     ELSE shift' = ShiftDict(r) /\ UNCHANGED shift_su
    /\ UNCHANGED <<read_file, line, su_pass, phase_count, rows, skipped, phase_select, select,
                   background, asymm, profile, background_su, asymm_su, profile_su,
                   fmtVars, nibVars, itemVars, refOnly>>

\* lines 167 and 205: the marker is found and the list of sublists starts empty;
\* range() needs int(select['bckgnum'])
FoundBackground ==
    /\ pc = "background"
    /\ StartsWith(line, "# Background")
    /\ rows' = <<>>
    /\ pc' = IF "bckgnum" \in DOMAIN select THEN "rows" ELSE "error"
    /\ UNCHANGED <<read_file, cursor, line, su_pass, phase_count, nibbled, dataVars,
                   fmtVars, nibVars, itemVars, refOnly>>

\* lines 168-171 and 206-209: one more line of coefficients
ReadBackgroundRow ==
    /\ pc = "rows"
    /\ LET n == IntOf(select["bckgnum"])
           want == IF Len(rows) < FullRows(n) THEN 6 ELSE LastRow(n)
           r == nibble_numbers(Text(ReadLine(read_file, cursor)), want, NUM_LEN)
       IN /\ Len(rows) < FullRows(n) \/ (Len(rows) = FullRows(n) /\ LastRow(n) # 0)
          /\ cursor' = Advance(read_file, cursor)
          /\ nibbled' = Nibbled("background")
          /\ IF r.exc # ""
             THEN Fail /\ UNCHANGED rows
             ELSE pc' = pc /\ rows' = Append(rows, r.val)
    /\ UNCHANGED <<read_file, line, su_pass, phase_count, dataVars, fmtVars, nibVars, itemVars, refOnly>>

\* lines 172 and 210
FlattenBackground ==
    /\ pc = "rows"
    /\ LET n == IntOf(select["bckgnum"])
       IN Len(rows) = FullRows(n) + (IF LastRow(n) # 0 THEN 1 ELSE 0)
    /\ IF su_pass
       THEN background_su' = Flatten(rows) /\ UNCHANGED background
       ELSE background' = Flatten(rows) /\ UNCHANGED background_su
    /\ pc' = "asymmetry"
    /\ UNCHANGED <<read_file, cursor, line, su_pass, phase_count, rows, nibbled, skipped,
                   phase_select, select, shift, asymm, profile, shift_su, asymm_su,
                   profile_su, fmtVars, nibVars, itemVars, refOnly>>

\* lines 177-182 and 215-220
ReadAsymmetry ==
    /\ pc = "asymmetry"
    /\ StartsWith(line, "# Asymmetry")
    /\ IF "asymm" \notin DOMAIN select
       THEN Fail /\ UNCHANGED <<cursor, nibbled, asymm, asymm_su, phase_count, profile, profile_su>>
       ELSE IF select["asymm"] = "1"
       THEN LET r == nibble_numbers(Text(ReadLine(read_file, cursor)), 1, NUM_LEN)
            IN /\ cursor' = Advance(read_file, cursor)
               /\ nibbled' = Nibbled("asymm")
               /\ IF r.exc # ""
                  THEN Fail /\ UNCHANGED <<asymm, asymm_su, phase_count, profile, profile_su>>
                  ELSE /\ pc' = "phase"
                       /\ phase_count' = 0
                       /\ IF su_pass
                          THEN asymm_su' = r.val[1] /\ profile_su' = <<>>
                               /\ UNCHANGED <<asymm, profile>>
                          ELSE asymm' = r.val[1] /\ profile' = <<>>
                               /\ UNCHANGED <<asymm_su, profile_su>>
       ELSE /\ pc' = "phase"
            /\ phase_count' = 0
            /\ IF su_pass
               THEN profile_su' = <<>> /\ UNCHANGED profile
               ELSE profile' = <<>> /\ UNCHANGED profile_su
            /\ UNCHANGED <<cursor, nibbled, asymm, asymm_su>>
    /\ UNCHANGED <<read_file, line, su_pass, rows, skipped, phase_select, select, shift,
                   background, shift_su, background_su, fmtVars, nibVars, itemVars, refOnly>>

\* lines 183-184 and 221-222: the outer loop's test, and the line it reads first
PhaseLoop ==
    /\ pc = "phase"
    /\ IF PhaseReached(phase_count)
       THEN pc' = "gaussian" /\ UNCHANGED <<line, cursor>>
       ELSE /\ pc' = "phase_seek"
            /\ line' = ReadLine(read_file, cursor)
            /\ cursor' = Advance(read_file, cursor)
    /\ UNCHANGED <<read_file, su_pass, phase_count, rows, nibbled, dataVars,
                   fmtVars, nibVars, itemVars, refOnly>>

\* lines 187 and 225
FoundPhase ==
    /\ pc = "phase_seek"
    /\ StartsWith(line, "### phase")
    /\ phase_count' = phase_count + 1
    /\ pc' = "phase"
    /\ UNCHANGED <<read_file, cursor, line, su_pass, rows, nibbled, dataVars,
                   fmtVars, nibVars, itemVars, refOnly>>

\* lines 190-191 and 228-229
ReadGaussian ==
    /\ pc = "gaussian"
    /\ StartsWith(line, "# Gaussian")
    /\ LET r == nibble_numbers(Text(ReadLine(read_file, cursor)), 4, NUM_LEN)
       IN /\ cursor' = Advance(read_file, cursor)
          /\ nibbled' = Nibbled("gaussian")
          /\ IF r.exc # ""
             THEN Fail /\ UNCHANGED <<profile, profile_su>>
             ELSE /\ pc' = "lorentzian"
                  /\ IF su_pass
                     THEN profile_su' = KeysInto(profile_su, Gaussians, r.val)
                          /\ UNCHANGED profile
                     ELSE profile' = KeysInto(profile, Gaussians, r.val)
                          /\ UNCHANGED profile_su
    /\ UNCHANGED <<read_file, line, su_pass, phase_count, rows, skipped, phase_select, select,
                   shift, background, asymm, shift_su, background_su, asymm_su,
                   fmtVars, nibVars, itemVars, refOnly>>

\* lines 194-195 and 232-233; the value pass is followed by the s.u. pass
ReadLorentzian ==
    /\ pc = "lorentzian"
    /\ StartsWith(line, "# Lorentzian")
    /\ LET r == nibble_numbers(Text(ReadLine(read_file, cursor)), 4, NUM_LEN)
       IN /\ cursor' = Advance(read_file, cursor)
          /\ nibbled' = Nibbled("lorentzian")
          /\ IF r.exc # ""
             THEN Fail /\ UNCHANGED <<profile, profile_su, su_pass>>
             ELSE IF su_pass
             THEN /\ pc' = "done"
                  /\ profile_su' = KeysInto(profile_su, Lorentzians, r.val)
                  /\ UNCHANGED <<profile, su_pass>>
             ELSE /\ pc' = "shift"
                  /\ su_pass' = TRUE
                  /\ profile' = KeysInto(profile, Lorentzians, r.val)
                  /\ UNCHANGED profile_su
    /\ UNCHANGED <<read_file, line, phase_count, rows, skipped, phase_select, select,
                   shift, background, asymm, shift_su, background_su, asymm_su,
                   fmtVars, nibVars, itemVars, refOnly>>

NextM41 ==
    \/ HeaderLine \/ HeaderEnds \/ Seek \/ ReadShift \/ FoundBackground
    \/ ReadBackgroundRow \/ FlattenBackground \/ ReadAsymmetry \/ PhaseLoop
    \/ FoundPhase \/ ReadGaussian \/ ReadLorentzian

-----------------------------------------------------------------------------
(* Logs for the scan: a complete log, or one with a line missing or cut short *)

MaxBckgnum == 13
MaxPhases == 2

Marked(pre) == LogLine(pre, <<>>, <<>>)
Tokens(tokens) == LogLine(tokens[1], tokens, <<>>)
Numbers(nums) == LogLine(" ", <<>>, nums)

RECURSIVE PhaseHeaders(_)
PhaseHeaders(k) ==
    IF k = 0 THEN <<>>
    ELSE PhaseHeaders(k - 1)
         \o <<Marked("phase"), Tokens(<<"proffun", "3">>), Tokens(<<"cutoff", "8">>)>>

Header(n, a, k) ==
    <<Tokens(<<"bckgnum", IntStr(n), "asymm", a>>), Tokens(<<"skipfrto", "10.0", "12.5">>)>>
    \o PhaseHeaders(k) \o <<Marked("end")>>

\* the lines of coefficients from the r-th on: six to a line, the rest on the last
RECURSIVE BackgroundRows(_, _, _)
BackgroundRows(r, n, base) ==
    IF 6 * (r - 1) >= n THEN <<>>
    ELSE LET w == IF n - 6 * (r - 1) < 6 THEN n - 6 * (r - 1) ELSE 6
         IN <<Numbers([c \in 1..w |-> base + 10 + 6 * (r - 1) + c])>>
            \o BackgroundRows(r + 1, n, base)

RECURSIVE PhaseSections(_, _, _)
PhaseSections(p, k, base) ==
    IF p > k THEN <<>>
    ELSE <<Marked("### phase"), Marked("# Cell"),
           Marked("# Gaussian"), Numbers([c \in 1..4 |-> base + 60 + 10 * p + c]),
           Marked("# Lorentzian"), Numbers([c \in 1..4 |-> base + 64 + 10 * p + c])>>
         \o PhaseSections(p + 1, k, base)

Block(n, a, k, base) ==
    <<Marked("# Shift"), Numbers(<<base + 1, base + 2, base + 3>>), Marked("# Background")>>
    \o BackgroundRows(1, n, base)
    \o <<Marked("# Asymmetry")>>
    \o (IF a = "1" THEN <<Numbers(<<base + 50>>)>> ELSE <<>>)
    \o PhaseSections(1, k, base)

Log(n, a, k) == Header(n, a, k) \o Block(n, a, k, 0) \o Block(n, a, k, 500)

Without(f, i) == SubSeq(f, 1, i - 1) \o SubSeq(f, i + 1, Len(f))

Logs ==
    LET whole == {Log(n, a, k) : n \in 0..MaxBckgnum, a \in {"0", "1"}, k \in 1..MaxPhases}
    IN whole
       \cup UNION {{Without(f, i) : i \in 1..Len(f)} : f \in whole}
       \cup UNION {{SubSeq(f, 1, i) : i \in 0..(Len(f) - 1)} :
                      f \in {Log(n, "1", MaxPhases) : n \in {0, 7}}}

InitM41 ==
    /\ read_file \in Logs
    /\ cursor = 0
    /\ line = None
    /\ pc = "header"
    /\ su_pass = FALSE
    /\ phase_count = 0
    /\ rows = <<>>
    /\ nibbled = <<>>
    /\ line_old = None /\ rb_obs = None /\ assigned = <<>>
    /\ skipped = <<>> /\ phase_select = <<>> /\ select = <<>>
    /\ shift = None /\ background = <<>> /\ asymm = None /\ profile = None
    /\ shift_su = None /\ background_su = <<>> /\ asymm_su = None /\ profile_su = None
    /\ IdleFmt /\ IdleNib /\ IdleItems

SpecM41 == InitM41 /\ [][NextM41]_vars

\* C1: the scan of *.m41 does not read on past end-of-file: once readline has
\* returned '' because a required marker did not occur, the scan has failed.
C1_MissingMarkerIsFatal == line = EofLine => pc = "error"

\* the lines one pass handed to nibble_numbers for one item, in order
ReadsOf(item, su) == SelectSeq(nibbled, LAMBDA e : e.item = item /\ e.su = su)

\* the number a field of a line of numbers holds, as float() returns it
FieldValue(l, c) == Dec(FALSE, l.nums[c], -6)

AfterRows == {"asymmetry", "phase", "phase_seek", "gaussian", "lorentzian"}

\* the pass has flattened its list of coefficients
BackgroundDone(su) ==
    IF su THEN su_pass /\ pc \in AfterRows \cup {"done"}
    ELSE su_pass \/ pc \in AfterRows

Ceil6(n) == (n + 5) \div 6

\* what C8 says of one pass and its list bg
BackgroundShape(su, bg) ==
    LET n == IntOf(select["bckgnum"])
        rs == ReadsOf("background", su)
    IN /\ Len(bg) = n
       /\ Len(rs) = Ceil6(n)
       /\ rs # <<>> =>
             /\ StartsWith(read_file[rs[1].at - 1], "# Background")
             /\ \A k \in 1..Len(rs) :
                   /\ rs[k].at = rs[1].at + k - 1
                   /\ Len(read_file[rs[k].at].nums) >= (IF k < Len(rs) \/ n % 6 = 0 THEN 6 ELSE n % 6)
             /\ \A j \in 1..n :
                   bg[j] = FieldValue(read_file[rs[1].at + (j - 1) \div 6], ((j - 1) % 6) + 1)

\* C8: for every bckgnum >= 0 the value pass and the s.u. pass each consume exactly
\* ceil(bckgnum/6) lines after their '# Background' marker (lines of 6 fields, the last
\* holding the remainder) and each yield exactly bckgnum coefficients in file order,
\* so that background and background_su have the same length bckgnum.
C8_BackgroundShape ==
    /\ BackgroundDone(FALSE) => BackgroundShape(FALSE, background)
    /\ BackgroundDone(TRUE) =>
          /\ BackgroundShape(TRUE, background_su)
          /\ Len(background) = Len(background_su)

\* both passes have read two full lines and a shorter last one
C8_Witness ==
    /\ pc = "done"
    /\ IntOf(select["bckgnum"]) = 13
    /\ Len(ReadsOf("background", FALSE)) = 3
    /\ Len(ReadsOf("background", TRUE)) = 3
    /\ Len(background_su) = 13

\* the markers of a log, in order
SectionMarkers ==
    {"end", "# Shift", "# Background", "# Asymmetry", "### phase", "# Gaussian", "# Lorentzian"}

MarkersOf(f) ==
    LET marks == SelectSeq(f, LAMBDA l : l.pre \in SectionMarkers)
    IN [i \in 1..Len(marks) |-> marks[i].pre]

RECURSIVE PhaseMarkers(_)
PhaseMarkers(k) ==
    IF k = 0 THEN <<>>
    ELSE <<"### phase", "# Gaussian", "# Lorentzian">> \o PhaseMarkers(k - 1)

BlockMarkers(k) == <<"# Shift", "# Background", "# Asymmetry">> \o PhaseMarkers(k)

\* the value block and the s.u. block each hold k >= PHASE_NUMBER per-phase sections
SectionsComplete(f) ==
    \E k \in PHASE_NUMBER..(MaxPhases + 1) :
        MarkersOf(f) = <<"end">> \o BlockMarkers(k) \o BlockMarkers(k)

Where(f, pre) == {i \in 1..Len(f) : f[i].pre = pre}

Min(S) == CHOOSE x \in S : \A y \in S : x <= y

\* the j-th line with the prefix after line i (0 if there is none)
RECURSIVE NthAfter(_, _, _, _)
NthAfter(f, pre, i, j) ==
    LET later == {x \in Where(f, pre) : x > i}
    IN IF later = {} THEN 0
       ELSE IF j = 1 THEN Min(later)
       ELSE NthAfter(f, pre, Min(later), j - 1)

\* the block of a pass starts at its '# Shift' marker
BlockStart(f, su) == NthAfter(f, "# Shift", 0, IF su THEN 2 ELSE 1)

\* the line after the first marker following the PHASE_NUMBER-th '### phase' of the pass
TargetLine(f, su, marker) ==
    NthAfter(f, marker, NthAfter(f, "### phase", BlockStart(f, su), PHASE_NUMBER), 1) + 1

ProfileOf(su) == IF su THEN profile_su ELSE profile

ReadFromTarget(su, item, marker, keys) ==
    \A k \in 1..Len(ReadsOf(item, su)) :
        LET at == ReadsOf(item, su)[k].at
        IN /\ at = TargetLine(read_file, su, marker)
           /\ (\A i \in 1..4 : keys[i] \in DOMAIN ProfileOf(su)) =>
                 \A i \in 1..4 : ProfileOf(su)[keys[i]] = FieldValue(read_file[at], i)

C9_State ==
    SectionsComplete(read_file) =>
        /\ \A su \in BOOLEAN :
              /\ ReadFromTarget(su, "gaussian", "# Gaussian", Gaussians)
              /\ ReadFromTarget(su, "lorentzian", "# Lorentzian", Lorentzians)
        /\ \A i, j \in 1..Len(nibbled) :
              /\ i < j => nibbled[i].at < nibbled[j].at
              /\ nibbled[i].item = "lorentzian" /\ ~nibbled[i].su /\ nibbled[j].su
                    => nibbled[i].at < nibbled[j].at
        /\ su_pass /\ ReadsOf("lorentzian", FALSE) # <<>>
              => cursor >= ReadsOf("lorentzian", FALSE)[1].at

\* C9: in a log whose value block and s.u. block each hold at least PHASE_NUMBER
\* per-phase sections, both passes read GU, GV, GW, GP from the line after the first
\* '# Gaussian' and LX, LXe, LY, LYe from the line after the first '# Lorentzian' that
\* follow the PHASE_NUMBER-th '### phase' marker of their own block; the s.u. pass
\* starts after the Lorentzian line of the value pass; the cursor never moves back.
C9_SameTargetPhase == [](C9_State) /\ [][cursor' >= cursor]_vars

\* both passes are through, in a log with two per-phase sections in each block
C9_Witness ==
    /\ pc = "done"
    /\ SectionsComplete(read_file)
    /\ Cardinality(Where(read_file, "### phase")) = 4
    /\ DOMAIN profile = DOMAIN profile_su
    /\ Cardinality(DOMAIN profile_su) = 8

-----------------------------------------------------------------------------
(* The scan of *.ref, lines 239-248 *)

\* '\n', a line that holds nothing
BlankLine == LogLine("\n", <<>>, <<>>)

\* line.split(): the fields of a line of numbers without their blanks; a word is
\* held as one symbol that is no digit
Split(l) ==
    IF l.pre = " " THEN [i \in 1..Len(l.nums) |-> Strip(Field9(l.nums[i]))]
    ELSE [i \in 1..Len(l.tokens) |-> <<l.tokens[i]>>]

\* float(line_old.split()[9])
TenthNumber(l) == IF Len(Split(l)) < 10 THEN Raise(IndexError) ELSE float(Split(l)[10])

\* every cycle block from the selected one on
CycleFrom(n) == n >= PHASE_NUMBER

\* if phase_count == PHASE_NUMBER, line 244
CycleSelected(n) == n = PHASE_NUMBER

m41Only == <<su_pass, rows, nibbled, dataVars>>

\* lines 241-244, one turn of the for loop
RefLine ==
    /\ pc = "for"
    /\ cursor < Len(read_file)
    /\ LET l == read_file[cursor + 1]
       IN /\ line' = l
          /\ cursor' = cursor + 1
          /\ IF StartsWith(l, "Cycle  RFobs")
             THEN /\ phase_count' = phase_count + 1
                  /\ pc' = IF CycleSelected(phase_count') THEN "while" ELSE "for"
             ELSE UNCHANGED <<phase_count, pc>>
    /\ UNCHANGED <<read_file, line_old, rb_obs, assigned, m41Only, fmtVars, nibVars, itemVars>>

\* the for loop of line 241 runs out of lines
RefEnds ==
    /\ pc = "for"
    /\ cursor = Len(read_file)
    /\ pc' = "done"
    /\ UNCHANGED <<read_file, cursor, line, phase_count, line_old, rb_obs, assigned,
                   m41Only, fmtVars, nibVars, itemVars>>

\* lines 245-247, one turn of the while loop
CycleLine ==
    /\ pc = "while"
    /\ line # BlankLine
    /\ line_old' = line
    /\ line' = ReadLine(read_file, cursor)
    /\ cursor' = Advance(read_file, cursor)
    /\ UNCHANGED <<read_file, pc, phase_count, rb_obs, assigned, m41Only,
                   fmtVars, nibVars, itemVars>>

\* line 248, after the while loop
SetRbObs ==
    /\ pc = "while"
    /\ line = BlankLine
    /\ LET r == TenthNumber(line_old)
       IN IF r.exc # ""
          THEN Fail /\ UNCHANGED <<rb_obs, assigned>>
          ELSE /\ rb_obs' = r.val
               /\ assigned' = Append(assigned, cursor - 1)
               /\ pc' = "for"
    /\ UNCHANGED <<read_file, cursor, line, line_old, phase_count, m41Only,
                   fmtVars, nibVars, itemVars>>

NextRef == RefLine \/ RefEnds \/ CycleLine \/ SetRbObs

MaxBlocks == 3
MaxCycles == 2

CycleHead ==
    LogLine("Cycle  RFobs",
            <<"Cycle", "RFobs", "RFall", "wRFobs", "wRFall", "RBobs", "RBall",
              "wRBobs", "wRBall", "nobs", "nall">>, <<>>)

\* the r-th line of the cycle block of phase p: ten numbers
CycleRow(p, r) == Numbers([c \in 1..10 |-> 1000 * p + 100 * r + c])

RECURSIVE CycleRows(_, _)
CycleRows(p, r) == IF r = 0 THEN <<>> ELSE CycleRows(p, r - 1) \o <<CycleRow(p, r)>>

RECURSIVE CycleBlocks(_, _)
CycleBlocks(p, cs) ==
    IF p > Len(cs) THEN <<>>
    ELSE <<CycleHead>> \o CycleRows(p, cs[p]) \o <<BlankLine, Tokens(<<"Phase", "ends">>)>>
         \o CycleBlocks(p + 1, cs)

RefLog(cs) == <<Tokens(<<"R-factors", "overview">>), BlankLine>> \o CycleBlocks(1, cs)

RefLogs ==
    LET whole == {RefLog(cs) : cs \in UNION {[1..k -> 1..MaxCycles] : k \in 0..MaxBlocks}}
    IN whole
       \cup UNION {{Without(f, i) : i \in 1..Len(f)} : f \in whole}
       \cup UNION {{SubSeq(f, 1, i) : i \in 0..(Len(f) - 1)} : f \in whole}

InitRef ==
    /\ read_file \in RefLogs
    /\ cursor = 0
    /\ line = None
    /\ pc = "for"
    /\ phase_count = 0
    /\ line_old = None /\ rb_obs = None /\ assigned = <<>>
    /\ su_pass = FALSE /\ rows = <<>> /\ nibbled = <<>>
    /\ IdleFmt /\ IdleNib /\ IdleItems /\ IdleData

SpecRef == InitRef /\ [][NextRef]_vars

\* the PHASE_NUMBER-th line that starts with 'Cycle  RFobs', and the first blank
\* line after it (0 if there is none)
CycleStart(f) == NthAfter(f, "Cycle  RFobs", 0, PHASE_NUMBER)
BlockEnd(f) == IF CycleStart(f) = 0 THEN 0 ELSE NthAfter(f, "\n", CycleStart(f), 1)

\* the log holds the cycle block of the selected phase
HasBlock(f) == BlockEnd(f) # 0

C10_State ==
    HasBlock(read_file) =>
        /\ Len(assigned) <= 1
        /\ \A k \in 1..Len(assigned) :
              /\ assigned[k] = BlockEnd(read_file) - 1
              /\ rb_obs = Dec(FALSE, read_file[BlockEnd(read_file) - 1].nums[10], -6)
        /\ assigned = <<>> => rb_obs = None
        /\ pc = "done" => Len(assigned) = 1
        /\ pc = "error" => TenthNumber(read_file[BlockEnd(read_file) - 1]).exc # ""
        /\ pc = "while" => line # EofLine

\* C10: rb_obs is the tenth token of the last line before the first blank line after
\* the PHASE_NUMBER-th line starting with 'Cycle  RFobs'; it is assigned exactly once,
\* and no other cycle block sets or overwrites it; the scan of a log that holds
\* that block ends: every step consumes a line or leaves its loop, and the while
\* loop never reads end-of-file.
C10_RbObsFromSelectedBlock ==
    /\ [](C10_State)
    /\ [][HasBlock(read_file) => cursor' > cursor \/ pc' # pc]_vars

\* the scan is through a log with a cycle block before and after the selected one's
\* place in the count, and rb_obs was set from a block of two lines
C10_Witness ==
    /\ pc = "done"
    /\ Cardinality(Where(read_file, "Cycle  RFobs")) = 3
    /\ Len(assigned) = 1
    /\ read_file[assigned[1] - 1].pre = " "
    /\ rb_obs # None

====
